---- MODULE Spec2Model ----
(***************************************************************************)
(* Lifecycle handlers of the Okta identity-provider resources              *)
(* (okta/idp.go, okta/resource_social_idp.go) and the remote service they  *)
(* talk to.  Every handler is one action; the remote calls it issues are   *)
(* recorded, in order, in trace.                                           *)
(***************************************************************************)
EXTENDS Integers, Sequences, FiniteSets, TLC

VARIABLES
    remote,     \* the service's identity providers: id -> "ABSENT" | "ACTIVE" | "INACTIVE"
    dId,        \* d.Id()
    dStatus,    \* d.Get("status")
    dActive,    \* the active flag the last delete callback read from d
    idpStatus,  \* idp.Status of the object the handler passed to setIdpStatus
    op,         \* the handler that ran last
    result,     \* what it returned: "nil", "err", or "panic" (nil dereference)
    existsRet,  \* the bool the last Exists callback returned
    trace       \* the remote calls and SetId steps of that handler, in order

vars == <<remote, dId, dStatus, dActive, idpStatus, op, result, existsRet, trace>>

\* ---------------------------------------------------------------- bounds
MaxIds == 2

\* ---------------------------------------------------------------- values
\* Identifiers are strings; the empty string is the empty sequence.
EmptyId == << >>
Ids == { <<i>> : i \in 1..MaxIds }

DesiredStatuses == {"ACTIVE", "INACTIVE"}
RemoteStatuses == {"ABSENT", "ACTIVE", "INACTIVE"}
\* status strings setIdpStatus may be handed ("" is the zero value of idp.Status)
StatusStrings == {"", "ACTIVE", "INACTIVE", "PENDING"}

\* What may go wrong with one request: nothing, a 404 or 500 answer, or a
\* transport failure for which the client hands back no response at all.
Faults == {"none", "404", "500", "net"}

\* *okta.Response as the handlers see it; StatusCode of a nil response is
\* never read by the model (reading it is the panic).
Resp(code) == [isNil |-> FALSE, StatusCode |-> code]
NilResp == [isNil |-> TRUE, StatusCode |-> 0]

\* &OIDCIdentityProvider{} : Policy and Protocol are nil pointers
EmptyIdp == [populated |-> FALSE, ID |-> EmptyId, Status |-> ""]

\* buildSocialIdp: Policy and Protocol set from the configuration, ID and
\* Status left at their zero values
buildSocialIdp == [populated |-> TRUE, ID |-> EmptyId, Status |-> ""]

\* ------------------------------------------------- the remote service
Present(rem, id) == id \in Ids /\ rem[id] # "ABSENT"

FaultCall(f, rem, idp) ==
    [resp |-> CASE f = "404" -> Resp(404)
                [] f = "500" -> Resp(500)
                [] OTHER     -> NilResp,
     err |-> TRUE, rem |-> rem, idp |-> idp]

NotFoundCall(rem, idp) == [resp |-> Resp(404), err |-> TRUE, rem |-> rem, idp |-> idp]

\* POST /idps : the service assigns newid and an initial status; a request
\* it cannot honour is answered 400.  The answer is decoded into idp.
CreateIdentityProvider(idp, rem, f, newid, newstatus) ==
    IF f # "none" THEN FaultCall(f, rem, idp)
    ELSE IF rem[newid] # "ABSENT"
         THEN [resp |-> Resp(400), err |-> TRUE, rem |-> rem, idp |-> idp]
         ELSE [resp |-> Resp(200), err |-> FALSE,
               rem |-> [rem EXCEPT ![newid] = newstatus],
               idp |-> [populated |-> TRUE, ID |-> newid, Status |-> newstatus]]

\* GET /idps/{id}
GetIdentityProvider(id, idp, rem, f) ==
    IF f # "none" THEN FaultCall(f, rem, idp)
    ELSE IF ~Present(rem, id) THEN NotFoundCall(rem, idp)
    ELSE [resp |-> Resp(200), err |-> FALSE, rem |-> rem,
          idp |-> [populated |-> TRUE, ID |-> id, Status |-> rem[id]]]

\* PUT /idps/{id} : the activation status is not part of the payload
UpdateIdentityProvider(id, idp, rem, f) ==
    IF f # "none" THEN FaultCall(f, rem, idp)
    ELSE IF ~Present(rem, id) THEN NotFoundCall(rem, idp)
    ELSE [resp |-> Resp(200), err |-> FALSE, rem |-> rem,
          idp |-> [populated |-> TRUE, ID |-> id, Status |-> rem[id]]]

\* POST /idps/{id}/lifecycle/activate
ActivateIdentityProvider(id, rem, f) ==
    IF f # "none" THEN FaultCall(f, rem, EmptyIdp)
    ELSE IF ~Present(rem, id) THEN NotFoundCall(rem, EmptyIdp)
    ELSE [resp |-> Resp(200), err |-> FALSE,
          rem |-> [rem EXCEPT ![id] = "ACTIVE"], idp |-> EmptyIdp]

\* POST /idps/{id}/lifecycle/deactivate
DeactivateIdentityProvider(id, rem, f) ==
    IF f # "none" THEN FaultCall(f, rem, EmptyIdp)
    ELSE IF ~Present(rem, id) THEN NotFoundCall(rem, EmptyIdp)
    ELSE [resp |-> Resp(200), err |-> FALSE,
          rem |-> [rem EXCEPT ![id] = "INACTIVE"], idp |-> EmptyIdp]

\* DELETE /idps/{id}
DeleteIdentityProvider(id, rem, f) ==
    IF f # "none" THEN FaultCall(f, rem, EmptyIdp)
    ELSE IF ~Present(rem, id) THEN NotFoundCall(rem, EmptyIdp)
    ELSE [resp |-> Resp(204), err |-> FALSE,
          rem |-> [rem EXCEPT ![id] = "ABSENT"], idp |-> EmptyIdp]

\* ------------------------------------------------------------ the trace
\* one remote call: which, the id it was keyed by, d.Id() at that moment,
\* and what came back
Ev(call, id, did, c) ==
    [call |-> call, id |-> id, dId |-> did,
     isNil |-> c.resp.isNil, code |-> c.resp.StatusCode, err |-> c.err]

\* d.SetId(id)
SetIdEv(id) ==
    [call |-> "SetId", id |-> id, dId |-> id,
     isNil |-> FALSE, code |-> 0, err |-> FALSE]

\* ------------------------------------------------------------- helpers
responseErr(resp, err) == IF err THEN "err" ELSE "nil"

suppressErrorOn404(resp, err) ==
    IF ~resp.isNil /\ resp.StatusCode = 404 THEN "nil" ELSE responseErr(resp, err)

\* ------------------------------------------------------- okta/idp.go
Panic(rem, tr) == [out |-> "panic", rem |-> rem, trace |-> tr]

\* resourceDeleteAnyIdp with the 404 test on the deactivate answer dropped
resourceDeleteAnyIdp_strict(id, active, rem, f1, f2) ==
    LET dc == DeactivateIdentityProvider(id, rem, f1)
        t1 == IF active THEN << Ev("DeactivateIdentityProvider", id, id, dc) >> ELSE << >>
        r1 == IF active THEN dc.rem ELSE rem
    IN  IF active /\ dc.err
        THEN [out |-> "err", rem |-> r1, trace |-> t1]
        ELSE LET xc == DeleteIdentityProvider(id, r1, f2)
                 t2 == t1 \o << Ev("DeleteIdentityProvider", id, id, xc) >>
             IN  IF xc.err
                 THEN [out |-> suppressErrorOn404(xc.resp, xc.err), rem |-> xc.rem, trace |-> t2]
                 ELSE [out |-> "nil", rem |-> xc.rem, trace |-> t2]

\* resourceDeleteAnyIdp with the test of active dropped
resourceDeleteAnyIdp_always(id, active, rem, f1, f2) ==
    LET dc == DeactivateIdentityProvider(id, rem, f1)
        t1 == << Ev("DeactivateIdentityProvider", id, id, dc) >>
    IN  IF dc.err /\ dc.resp.isNil
        THEN Panic(dc.rem, t1)
        ELSE IF dc.err /\ dc.resp.StatusCode # 404
        THEN [out |-> "err", rem |-> dc.rem, trace |-> t1]
        ELSE LET xc == DeleteIdentityProvider(id, dc.rem, f2)
                 t2 == t1 \o << Ev("DeleteIdentityProvider", id, id, xc) >>
             IN  IF xc.err
                 THEN [out |-> suppressErrorOn404(xc.resp, xc.err), rem |-> xc.rem, trace |-> t2]
                 ELSE [out |-> "nil", rem |-> xc.rem, trace |-> t2]

\* resourceDeleteAnyIdp(d, m, active); id is d.Id()
resourceDeleteAnyIdp(id, active, rem, f1, f2) ==
    LET dc == DeactivateIdentityProvider(id, rem, f1)
        t1 == IF active THEN << Ev("DeactivateIdentityProvider", id, id, dc) >> ELSE << >>
        r1 == IF active THEN dc.rem ELSE rem
    IN  IF active /\ dc.err /\ dc.resp.isNil
        THEN Panic(r1, t1)                      \* resp.StatusCode on a nil resp
        ELSE IF active /\ dc.err /\ dc.resp.StatusCode # 404
        THEN [out |-> "err", rem |-> r1, trace |-> t1]
        ELSE LET xc == DeleteIdentityProvider(id, r1, f2)
                 t2 == t1 \o << Ev("DeleteIdentityProvider", id, id, xc) >>
             IN  IF xc.err
                 THEN [out |-> suppressErrorOn404(xc.resp, xc.err), rem |-> xc.rem, trace |-> t2]
                 ELSE [out |-> "nil", rem |-> xc.rem, trace |-> t2]

\* fetchIdp(id, m, idp); did is d.Id() of the calling handler.  "idp = nil"
\* assigns the parameter only: the caller keeps the object it passed.
fetchIdp(id, did, idp, rem, f) ==
    LET c == GetIdentityProvider(id, idp, rem, f)
        t == << Ev("GetIdentityProvider", id, did, c) >>
    IN  IF c.resp.isNil
        THEN [out |-> "panic", rem |-> c.rem, trace |-> t, idp |-> c.idp]
        ELSE IF c.resp.StatusCode = 404
        THEN [out |-> "nil", rem |-> c.rem, trace |-> t, idp |-> c.idp]
        ELSE [out |-> responseErr(c.resp, c.err), rem |-> c.rem, trace |-> t, idp |-> c.idp]

\* updateIdp(id, m, idp)
updateIdp(id, did, idp, rem, f) ==
    LET c == UpdateIdentityProvider(id, idp, rem, f)
        t == << Ev("UpdateIdentityProvider", id, did, c) >>
    IN  IF c.resp.isNil
        THEN [out |-> "panic", rem |-> c.rem, trace |-> t, idp |-> c.idp]
        ELSE IF c.resp.StatusCode = 404
        THEN [out |-> "nil", rem |-> c.rem, trace |-> t, idp |-> c.idp]
        ELSE [out |-> responseErr(c.resp, c.err), rem |-> c.rem, trace |-> t, idp |-> c.idp]

\* createIdp(m, idp)
createIdp(did, idp, rem, f, newid, newstatus) ==
    LET c == CreateIdentityProvider(idp, rem, f, newid, newstatus)
        t == << Ev("CreateIdentityProvider", EmptyId, did, c) >>
    IN  IF c.resp.isNil
        THEN [out |-> "panic", rem |-> c.rem, trace |-> t, idp |-> c.idp]
        ELSE IF c.resp.StatusCode = 404
        THEN [out |-> "nil", rem |-> c.rem, trace |-> t, idp |-> c.idp]
        ELSE [out |-> responseErr(c.resp, c.err), rem |-> c.rem, trace |-> t, idp |-> c.idp]

\* setIdpStatus issuing the opposite lifecycle call
setIdpStatus_swapped(id, did, status, desiredStatus, rem, f) ==
    IF status # desiredStatus /\ desiredStatus = "INACTIVE"
    THEN LET c == ActivateIdentityProvider(id, rem, f)
         IN  [out |-> responseErr(c.resp, c.err), rem |-> c.rem,
              trace |-> << Ev("ActivateIdentityProvider", id, did, c) >>]
    ELSE IF status # desiredStatus /\ desiredStatus = "ACTIVE"
    THEN LET c == DeactivateIdentityProvider(id, rem, f)
         IN  [out |-> responseErr(c.resp, c.err), rem |-> c.rem,
              trace |-> << Ev("DeactivateIdentityProvider", id, did, c) >>]
    ELSE [out |-> "nil", rem |-> rem, trace |-> << >>]

\* setIdpStatus without the comparison of status and desiredStatus
setIdpStatus_nocompare(id, did, status, desiredStatus, rem, f) ==
    IF desiredStatus = "INACTIVE"
    THEN LET c == DeactivateIdentityProvider(id, rem, f)
         IN  [out |-> responseErr(c.resp, c.err), rem |-> c.rem,
              trace |-> << Ev("DeactivateIdentityProvider", id, did, c) >>]
    ELSE IF desiredStatus = "ACTIVE"
    THEN LET c == ActivateIdentityProvider(id, rem, f)
         IN  [out |-> responseErr(c.resp, c.err), rem |-> c.rem,
              trace |-> << Ev("ActivateIdentityProvider", id, did, c) >>]
    ELSE [out |-> "nil", rem |-> rem, trace |-> << >>]

\* setIdpStatus(id, status, desiredStatus, m)
setIdpStatus(id, did, status, desiredStatus, rem, f) ==
    IF status # desiredStatus /\ desiredStatus = "INACTIVE"
    THEN LET c == DeactivateIdentityProvider(id, rem, f)
         IN  [out |-> responseErr(c.resp, c.err), rem |-> c.rem,
              trace |-> << Ev("DeactivateIdentityProvider", id, did, c) >>]
    ELSE IF status # desiredStatus /\ desiredStatus = "ACTIVE"
    THEN LET c == ActivateIdentityProvider(id, rem, f)
         IN  [out |-> responseErr(c.resp, c.err), rem |-> c.rem,
              trace |-> << Ev("ActivateIdentityProvider", id, did, c) >>]
    ELSE [out |-> "nil", rem |-> rem, trace |-> << >>]

\* getIdentityProviderExists with the test weakened to "not 404"
getIdentityProviderExists_not404(id, rem, f) ==
    LET c == GetIdentityProvider(id, EmptyIdp, rem, f)
        t == << Ev("GetIdentityProvider", id, id, c) >>
    IN  IF c.resp.isNil
        THEN [out |-> "panic", rem |-> c.rem, trace |-> t, exists |-> FALSE]
        ELSE [out |-> IF c.err THEN "err" ELSE "nil", rem |-> c.rem, trace |-> t,
              exists |-> (c.resp.StatusCode # 404)]

\* the ExistsFunc returned by getIdentityProviderExists; id is d.Id()
getIdentityProviderExists(id, rem, f) ==
    LET c == GetIdentityProvider(id, EmptyIdp, rem, f)
        t == << Ev("GetIdentityProvider", id, id, c) >>
    IN  IF c.resp.isNil
        THEN [out |-> "panic", rem |-> c.rem, trace |-> t, exists |-> FALSE]
        ELSE [out |-> IF c.err THEN "err" ELSE "nil", rem |-> c.rem, trace |-> t,
              exists |-> (c.resp.StatusCode = 200)]

\* ------------------------------------------- okta/resource_social_idp.go
\* resourceSocialIdpRead(d, m); id is d.Id().  After a nil from fetchIdp the
\* handler dereferences idp.Policy, which is nil unless a body was decoded.
resourceSocialIdpRead(id, rem, f) ==
    LET r == fetchIdp(id, id, EmptyIdp, rem, f)
    IN  IF r.out # "nil" THEN [out |-> r.out, rem |-> r.rem, trace |-> r.trace]
        ELSE IF ~r.idp.populated THEN Panic(r.rem, r.trace)
        ELSE [out |-> "nil", rem |-> r.rem, trace |-> r.trace]

\* resourceSocialIdpCreate going on to the read-back after a failed setIdpStatus
resourceSocialIdpCreate_goeson(desired, rem, f1, f2, f3, newid, newstatus) ==
    LET c == createIdp(EmptyId, buildSocialIdp, rem, f1, newid, newstatus)
    IN  IF c.out # "nil"
        THEN [out |-> c.out, rem |-> c.rem, trace |-> c.trace, id |-> EmptyId, status |-> ""]
        ELSE LET s == setIdpStatus(c.idp.ID, c.idp.ID, c.idp.Status, desired, c.rem, f2)
                 t == c.trace \o << SetIdEv(c.idp.ID) >> \o s.trace
                 r == resourceSocialIdpRead(c.idp.ID, s.rem, f3)
             IN  [out |-> r.out, rem |-> r.rem, trace |-> t \o r.trace,
                  id |-> c.idp.ID, status |-> c.idp.Status]

\* resourceSocialIdpCreate(d, m); d.Id() is empty on entry
resourceSocialIdpCreate(desired, rem, f1, f2, f3, newid, newstatus) ==
    LET c == createIdp(EmptyId, buildSocialIdp, rem, f1, newid, newstatus)
    IN  IF c.out # "nil"
        THEN [out |-> c.out, rem |-> c.rem, trace |-> c.trace, id |-> EmptyId, status |-> ""]
        ELSE LET s == setIdpStatus(c.idp.ID, c.idp.ID, c.idp.Status, desired, c.rem, f2)
                 t == c.trace \o << SetIdEv(c.idp.ID) >> \o s.trace
             IN  IF s.out # "nil"
                 THEN [out |-> s.out, rem |-> s.rem, trace |-> t,
                       id |-> c.idp.ID, status |-> c.idp.Status]
                 ELSE LET r == resourceSocialIdpRead(c.idp.ID, s.rem, f3)
                      IN  [out |-> r.out, rem |-> r.rem, trace |-> t \o r.trace,
                           id |-> c.idp.ID, status |-> c.idp.Status]

\* resourceSocialIdpUpdate(d, m); id is d.Id()
resourceSocialIdpUpdate(id, desired, rem, f1, f2, f3) ==
    LET u == updateIdp(id, id, buildSocialIdp, rem, f1)
    IN  IF u.out # "nil"
        THEN [out |-> u.out, rem |-> u.rem, trace |-> u.trace, status |-> ""]
        ELSE LET s == setIdpStatus(u.idp.ID, id, u.idp.Status, desired, u.rem, f2)
                 t == u.trace \o s.trace
             IN  IF s.out # "nil"
                 THEN [out |-> s.out, rem |-> s.rem, trace |-> t, status |-> u.idp.Status]
                 ELSE LET r == resourceSocialIdpRead(id, s.rem, f3)
                      IN  [out |-> r.out, rem |-> r.rem, trace |-> t \o r.trace,
                           status |-> u.idp.Status]

\* ------------------------------------------------------------ actions
Init ==
    /\ remote = [i \in Ids |-> "ABSENT"]
    /\ dId = EmptyId
    /\ dStatus = "ACTIVE"
    /\ dActive = FALSE
    /\ idpStatus = ""
    /\ op = "none"
    /\ result = "nil"
    /\ existsRet = FALSE
    /\ trace = << >>

\* Create callback: the host calls it for a resource that has no id yet
Create ==
    /\ dId = EmptyId
    /\ \E desired \in DesiredStatuses, f1, f2, f3 \in Faults,
          newid \in Ids, newstatus \in DesiredStatuses :
         LET h == resourceSocialIdpCreate(desired, remote, f1, f2, f3, newid, newstatus)
         IN  /\ remote' = h.rem
             /\ dId' = h.id
             /\ dStatus' = desired
             /\ idpStatus' = h.status
             /\ op' = "Create"
             /\ result' = h.out
             /\ trace' = h.trace
    /\ dActive' = FALSE
    /\ existsRet' = FALSE

\* Read callback
Read ==
    /\ dId # EmptyId
    /\ \E f \in Faults :
         LET h == resourceSocialIdpRead(dId, remote, f)
         IN  /\ remote' = h.rem
             /\ op' = "Read"
             /\ result' = h.out
             /\ trace' = h.trace
    /\ idpStatus' = ""
    /\ dActive' = FALSE
    /\ existsRet' = FALSE
    /\ UNCHANGED <<dId, dStatus>>

\* Update callback, with the status the configuration now declares
Update ==
    /\ dId # EmptyId
    /\ \E desired \in DesiredStatuses, f1, f2, f3 \in Faults :
         LET h == resourceSocialIdpUpdate(dId, desired, remote, f1, f2, f3)
         IN  /\ remote' = h.rem
             /\ dStatus' = desired
             /\ idpStatus' = h.status
             /\ op' = "Update"
             /\ result' = h.out
             /\ trace' = h.trace
    /\ dActive' = FALSE
    /\ existsRet' = FALSE
    /\ UNCHANGED dId

\* what a delete callback leaves behind: the host drops the resource, id
\* included, once the callback returned nil
Deleted(h, name) ==
    /\ remote' = h.rem
    /\ dId' = IF h.out = "nil" THEN EmptyId ELSE dId
    /\ idpStatus' = ""
    /\ op' = name
    /\ result' = h.out
    /\ trace' = h.trace
    /\ existsRet' = FALSE
    /\ UNCHANGED dStatus

\* resourceIdpDelete(d, m)
IdpDelete ==
    /\ dId # EmptyId
    /\ \E f1, f2 \in Faults :
         Deleted(resourceDeleteAnyIdp(dId, dStatus = "ACTIVE", remote, f1, f2), "IdpDelete")
    /\ dActive' = (dStatus = "ACTIVE")

\* resourceIdentityProviderDelete(d, m)
IdentityProviderDelete ==
    /\ dId # EmptyId
    /\ \E active \in BOOLEAN, f1, f2 \in Faults :
         /\ Deleted(resourceDeleteAnyIdp(dId, active, remote, f1, f2), "IdentityProviderDelete")
         /\ dActive' = active

\* Exists callback
Exists ==
    /\ dId # EmptyId
    /\ \E f \in Faults :
         LET h == getIdentityProviderExists(dId, remote, f)
         IN  /\ remote' = h.rem
             /\ op' = "Exists"
             /\ result' = h.out
             /\ existsRet' = h.exists
             /\ trace' = h.trace
    /\ idpStatus' = ""
    /\ dActive' = FALSE
    /\ UNCHANGED <<dId, dStatus>>

\* Importer, schema.ImportStatePassthrough: the id the user names becomes d.Id()
Import ==
    /\ dId = EmptyId
    /\ \E id \in Ids : dId' = id
    /\ op' = "Import"
    /\ result' = "nil"
    /\ trace' = << >>
    /\ idpStatus' = ""
    /\ dActive' = FALSE
    /\ existsRet' = FALSE
    /\ UNCHANGED <<remote, dStatus>>

\* the remote object is removed by someone else, between two callbacks
RemovedRemotely ==
    /\ \E id \in Ids :
         /\ remote[id] # "ABSENT"
         /\ remote' = [remote EXCEPT ![id] = "ABSENT"]
    /\ op' = "none"
    /\ result' = "nil"
    /\ trace' = << >>
    /\ idpStatus' = ""
    /\ dActive' = FALSE
    /\ existsRet' = FALSE
    /\ UNCHANGED <<dId, dStatus>>

Next ==
    \/ Create
    \/ Read
    \/ Update
    \/ IdpDelete
    \/ IdentityProviderDelete
    \/ Exists
    \/ Import
    \/ RemovedRemotely

Spec == Init /\ [][Next]_vars

TypeOK ==
    /\ remote \in [Ids -> RemoteStatuses]
    /\ dId \in Ids \cup {EmptyId}
    /\ dStatus \in DesiredStatuses
    /\ dActive \in BOOLEAN
    /\ result \in {"nil", "err", "panic"}
    /\ existsRet \in BOOLEAN
    /\ Len(trace) <= 4

\* ------------------------------------- setIdpStatus on its own inputs
InitStatus ==
    /\ remote \in [Ids -> RemoteStatuses]
    /\ dId \in Ids \cup {EmptyId}
    /\ dStatus \in StatusStrings
    /\ dActive = FALSE
    /\ idpStatus \in StatusStrings
    /\ op = "none"
    /\ result = "nil"
    /\ existsRet = FALSE
    /\ trace = << >>

\* setIdpStatus(dId, idpStatus, dStatus, m)
Reconcile ==
    /\ op = "none"
    /\ \E f \in Faults :
         LET h == setIdpStatus(dId, dId, idpStatus, dStatus, remote, f)
         IN  /\ remote' = h.rem
             /\ op' = "setIdpStatus"
             /\ result' = h.out
             /\ trace' = h.trace
    /\ UNCHANGED <<dId, dStatus, dActive, idpStatus, existsRet>>

NextStatus == Reconcile

SpecStatus == InitStatus /\ [][NextStatus]_vars

\* ------------------------------------------------------------ properties
DeleteOps == {"IdpDelete", "IdentityProviderDelete"}
Lifecycle == {"ActivateIdentityProvider", "DeactivateIdentityProvider"}
Writes == {"CreateIdentityProvider", "UpdateIdentityProvider"}

AnsweredNotFound(e) == ~e.isNil /\ e.code = 404
\* a network failure, or an answer that is neither 2xx nor 404
Failed(e) == e.call # "SetId" /\ (e.isNil \/ (e.code \notin 200..299 /\ e.code # 404))
Calls(name) == { i \in DOMAIN trace : trace[i].call = name }
CallsIn(names) == { i \in DOMAIN trace : trace[i].call \in names }

\* C1: a delete whose remote calls were all answered 404 Not Found returns
\* nil, whether or not the active flag made it deactivate first.
C1_DeleteOfAbsentReturnsNil ==
    (op \in DeleteOps /\ \A i \in DOMAIN trace : AnsweredNotFound(trace[i]))
        => result = "nil"

C1_Witness ==
    /\ op = "IdpDelete" /\ dActive /\ result = "nil"
    /\ Len(trace) = 2
    /\ trace[1].call = "DeactivateIdentityProvider" /\ AnsweredNotFound(trace[1])
    /\ trace[2].call = "DeleteIdentityProvider" /\ AnsweredNotFound(trace[2])

\* C2: a Read whose GetIdentityProvider was answered 404 returns nil and
\* leaves the resource without an identifier.
C2_ReadOfRemovedMarksAbsent ==
    (op = "Read" /\ AnsweredNotFound(trace[1]))
        => (result = "nil" /\ dId = EmptyId)

C4_FailuresAreReturned ==
    (op \in {"Create", "Read", "Update"} \cup DeleteOps
        /\ \E i \in DOMAIN trace : Failed(trace[i]))
        => result = "err"

\* C5: every remote call issued for a resource that has an identifier is
\* keyed by that identifier.
C5_CallsKeyedByStoredId ==
    \A i \in DOMAIN trace :
        (trace[i].call \notin {"CreateIdentityProvider", "SetId"} /\ trace[i].dId # EmptyId)
            => trace[i].id = trace[i].dId

\* C6: Exists reports true exactly when the fetch was answered 200.
C6_ExistsIffOk ==
    (op = "Exists" /\ ~trace[1].isNil) => (existsRet <=> trace[1].code = 200)

C6_Witness ==
    op = "Exists" /\ existsRet /\ result = "nil" /\ trace[1].code = 200

\* C7: Create and Update issue the write call, then the status call, then
\* the read-back; Create stores the identifier before the status call; and
\* nothing follows a step that returned an error.
StepRank(e) ==
    CASE e.call \in Writes -> 1
      [] e.call = "SetId" -> 2
      [] e.call \in Lifecycle -> 3
      [] OTHER -> 4

\* the step that issued e returned an error (or crashed)
StepFailed(e) ==
    CASE e.call \in Writes -> e.isNil \/ (e.err /\ e.code # 404)
      [] e.call = "SetId" -> FALSE
      [] e.call \in Lifecycle -> e.err
      [] OTHER -> e.isNil \/ (e.err /\ e.code # 404)

C7_FixedOrderStopAtError ==
    op \in {"Create", "Update"} =>
        /\ Len(trace) >= 1
        /\ trace[1].call = IF op = "Create" THEN "CreateIdentityProvider"
                                            ELSE "UpdateIdentityProvider"
        /\ \A i, j \in DOMAIN trace : i < j => StepRank(trace[i]) < StepRank(trace[j])
        /\ (op = "Create" /\ Len(trace) >= 2) => trace[2].call = "SetId"
        /\ (op = "Update") => Calls("SetId") = {}
        /\ \A i \in DOMAIN trace : StepFailed(trace[i]) => i = Len(trace)

C7_Witness ==
    /\ op = "Create" /\ result = "nil" /\ Len(trace) = 4
    /\ trace[3].call = "DeactivateIdentityProvider"
    /\ trace[4].call = "GetIdentityProvider"

\* C8: Delete deactivates only when the local state says active, and then
\* before the delete call; a deactivate that failed with anything but 404
\* is followed by no delete call.
C8_DeactivateOnlyWhenActiveThenDelete ==
    op \in DeleteOps =>
        /\ Calls("DeactivateIdentityProvider") # {} => dActive
        /\ Calls("DeactivateIdentityProvider") \subseteq {1}
        /\ Calls("DeleteIdentityProvider") \subseteq {Len(trace)}
        /\ CallsIn({"DeactivateIdentityProvider", "DeleteIdentityProvider"}) = DOMAIN trace
        /\ \A i \in Calls("DeactivateIdentityProvider") :
             (trace[i].err /\ ~AnsweredNotFound(trace[i]))
                 => Calls("DeleteIdentityProvider") = {}

C8_Witness ==
    /\ op = "IdpDelete" /\ dActive /\ result = "err"
    /\ Len(trace) = 1
    /\ trace[1].call = "DeactivateIdentityProvider" /\ trace[1].code = 500

\* C9: the identifier Create stores after the create call is never empty.
C9_StoredIdNonEmpty ==
    op = "Create" => \A i \in Calls("SetId") : trace[i].id # EmptyId

\* C10: after a Create or Update that returned nil, the remote object's
\* activation status is the desired status that operation declared.
C10_RemoteStatusIsDesired ==
    (op \in {"Create", "Update"} /\ result = "nil")
        => (dId \in Ids /\ remote[dId] = dStatus)

C10_Witness ==
    /\ op = "Update" /\ result = "nil" /\ dStatus = "INACTIVE"
    /\ Calls("DeactivateIdentityProvider") # {}
    /\ remote[dId] = "INACTIVE"

====
